---- MODULE Spec2Model ----
(***************************************************************************)
(* Model of the sales analytics system: the parser, the validator/filter,  *)
(* the seven aggregation functions, the catalog mapper and the enrichment  *)
(* join                                                                    *)
(* (src/utils/data_processor.py, src/utils/api_handler.py), driven in the  *)
(* order main() calls them (src/main.py).                                  *)
(*                                                                         *)
(* Representation.                                                         *)
(*  - A Python str is a sequence of one-character strings: "T1" is         *)
(*    <<"T", "1">> and "" is <<>>.                                         *)
(*  - A Python dict with string keys is a function whose DOMAIN is the set *)
(*    of keys it holds; a missing key is a key outside the DOMAIN.         *)
(*  - An optional value (None or a value) is a sequence of length at most  *)
(*    one: None is <<>> and the value v is <<v>>.                          *)
(*  - A Python float (UnitPrice, an amount, an amount bound, a total, a   *)
(*    percentage) is a record: a NaN, an infinity with its sign, or a      *)
(*    finite value sign * significand * 2^exponent, the significand held   *)
(*    as its binary digits without zeros at either end (none for 0.0), so  *)
(*    that equal finite floats are equal records. The arithmetic is that   *)
(*    of IEEE 754 binary64: each sum, product and quotient is rounded to   *)
(*    53 significant digits, to nearest, ties to even; every comparison    *)
(*    with a NaN is false. A zero keeps its sign (0.0 and -0.0 compare     *)
(*    equal and print differently), and the values of the model stay       *)
(*    within the range of the normal floats.                               *)
(*  - An uncaught exception of a function is the name of its type in the   *)
(*    field "raised" of the function's outcome ("" when it returns).       *)
(***************************************************************************)
EXTENDS Integers, Sequences, FiniteSets

VARIABLES
    pc,               \* the step of main() the program is at
    raw_lines,        \* the list of lines handed to parse_transactions
    transactions,     \* main's variable `transactions`
    inputs,           \* the list handed to the most recent validate_and_filter call
    region,           \* the region argument (optional str)
    min_amount,       \* the min_amount argument (optional number)
    max_amount,       \* the max_amount argument (optional number)
    invalid_count,    \* second component returned by validate_and_filter
    filter_summary,   \* third component returned by validate_and_filter
    error,            \* type name of the exception that ended the run, "" if none
    result,           \* value returned by the most recent analysis call
    n,                \* the argument n of top_selling_products
    threshold,        \* the argument threshold of low_performing_products
    api_products,     \* the list returned by fetch_all_products
    product_mapping,  \* the dict returned by create_product_mapping
    enriched_transactions,  \* the list returned by enrich_sales_data
    enriched_file     \* the rows of data/enriched_sales_data.txt, None if not written

filterVars == <<inputs, region, min_amount, max_amount, invalid_count, filter_summary>>

analysisVars == <<result, n, threshold>>

catalogVars == <<api_products, product_mapping, enriched_transactions, enriched_file>>

vars == <<pc, raw_lines, transactions, error, filterVars, analysisVars, catalogVars>>

----------------------------------------------------------------------------
(* Optional values and Python truthiness *)

None == <<>>

Some(v) == <<v>>

\* bool(x) of an optional str: None and "" are falsy
TruthyStr(x) == x # None /\ x[1] # <<>>

\* str.startswith(prefix) for a one-character prefix
startswith(s, c) == Len(s) > 0 /\ s[1] = c

\* dict.get(key): None when the key is missing
get(tx, key) == IF key \in DOMAIN tx THEN Some(tx[key]) ELSE None

----------------------------------------------------------------------------
(* Floats *)

\* the binary digits of the natural k, the most significant first; none
\* for 0
RECURSIVE bits_of(_)
bits_of(k) == IF k = 0 THEN <<>> ELSE Append(bits_of(k \div 2), k % 2)

RECURSIVE pow2(_)
pow2(k) == IF k = 0 THEN 1 ELSE 2 * pow2(k - 1)

\* long naturals are added and multiplied in groups of limb_bits digits
limb_bits == 15

\* the naturals below limb_base are the values of a group
limb_base == pow2(limb_bits)

\* the weight of each digit of a group, the first digit's first
limb_weights == [i \in 1..limb_bits |-> pow2(limb_bits - i)]

\* the natural that at most 2 * limb_bits digits hold
RECURSIVE limb_of(_)
limb_of(bits) ==
    IF bits = <<>> THEN 0
    ELSE 2 * limb_of(SubSeq(bits, 1, Len(bits) - 1)) + bits[Len(bits)]

\* the groups of limb_bits digits of bits, counted from its last digit
RECURSIVE limbs_of(_)
limbs_of(bits) ==
    IF Len(bits) <= limb_bits THEN <<limb_of(bits)>>
    ELSE Append(limbs_of(SubSeq(bits, 1, Len(bits) - limb_bits)),
                limb_of(SubSeq(bits, Len(bits) - limb_bits + 1, Len(bits))))

\* the digits of the groups limbs, limb_bits for each
bits_of_limbs(limbs) ==
    [i \in 1..(limb_bits * Len(limbs)) |->
        (limbs[((i - 1) \div limb_bits) + 1]
            \div limb_weights[((i - 1) % limb_bits) + 1]) % 2]

\* the natural that bits holds
RECURSIVE nat_of(_)
nat_of(bits) ==
    IF Len(bits) <= limb_bits THEN limb_of(bits)
    ELSE limb_base * nat_of(SubSeq(bits, 1, Len(bits) - limb_bits))
         + limb_of(SubSeq(bits, Len(bits) - limb_bits + 1, Len(bits)))

zeros(count) == [i \in 1..count |-> 0]

without_leading_zeros(bits) ==
    IF \A i \in 1..Len(bits) : bits[i] = 0 THEN <<>>
    ELSE SubSeq(bits, CHOOSE i \in 1..Len(bits) :
                          bits[i] = 1 /\ \A j \in 1..(i - 1) : bits[j] = 0,
                Len(bits))

without_trailing_zeros(bits) ==
    IF \A i \in 1..Len(bits) : bits[i] = 0 THEN <<>>
    ELSE SubSeq(bits, 1, CHOOSE i \in 1..Len(bits) :
                             bits[i] = 1 /\ \A j \in (i + 1)..Len(bits) : bits[j] = 0)

\* bits + 1
increment(bits) ==
    IF \A i \in 1..Len(bits) : bits[i] = 1
    THEN <<1>> \o zeros(Len(bits))
    ELSE LET last_zero == CHOOSE i \in 1..Len(bits) :
                              bits[i] = 0 /\ \A j \in (i + 1)..Len(bits) : bits[j] = 1
         IN [i \in 1..Len(bits) |->
                IF i < last_zero THEN bits[i] ELSE IF i = last_zero THEN 1 ELSE 0]

\* limbs * k + carry for a natural k below 2^limb_bits
RECURSIVE times_limbs(_, _, _)
times_limbs(limbs, k, carry) ==
    IF limbs = <<>> THEN (IF carry = 0 THEN <<>> ELSE <<carry>>)
    ELSE LET product == limbs[Len(limbs)] * k + carry
         IN Append(times_limbs(SubSeq(limbs, 1, Len(limbs) - 1), k,
                               product \div limb_base),
                   product % limb_base)

\* bits * k for a natural k below 2^limb_bits
times(bits, k) ==
    without_leading_zeros(bits_of_limbs(times_limbs(limbs_of(bits), k, 0)))

\* a + b + carry for two naturals of as many limbs
RECURSIVE plus_limbs(_, _, _)
plus_limbs(a, b, carry) ==
    IF a = <<>> THEN (IF carry = 0 THEN <<>> ELSE <<carry>>)
    ELSE LET sum == a[Len(a)] + b[Len(b)] + carry
         IN Append(plus_limbs(SubSeq(a, 1, Len(a) - 1), SubSeq(b, 1, Len(b) - 1),
                              sum \div limb_base),
                   sum % limb_base)

\* a - b - borrow for two naturals of as many limbs, a >= b + borrow
RECURSIVE minus_limbs(_, _, _)
minus_limbs(a, b, borrow) ==
    IF a = <<>> THEN <<>>
    ELSE LET difference == a[Len(a)] - b[Len(b)] - borrow
         IN Append(minus_limbs(SubSeq(a, 1, Len(a) - 1), SubSeq(b, 1, Len(b) - 1),
                               IF difference < 0 THEN 1 ELSE 0),
                   IF difference < 0 THEN difference + limb_base
                   ELSE difference)

\* a + b for two naturals, brought to one length by zeros put before the
\* shorter
plus(a, b) ==
    LET len == IF Len(a) > Len(b) THEN Len(a) ELSE Len(b) IN
    without_leading_zeros(bits_of_limbs(
        plus_limbs(limbs_of(zeros(len - Len(a)) \o a),
                   limbs_of(zeros(len - Len(b)) \o b), 0)))

\* a - b for two naturals, a >= b
minus(a, b) ==
    without_leading_zeros(bits_of_limbs(
        minus_limbs(limbs_of(a), limbs_of(zeros(Len(a) - Len(b)) \o b), 0)))

\* the i-th digit of bits, 0 behind its last digit
digit(bits, i) == IF i <= Len(bits) THEN bits[i] ELSE 0

\* a < b for two digit sequences read from their first digit on, the
\* shorter one continued with zeros
digits_less(a, b) ==
    \E i \in 1..(IF Len(a) > Len(b) THEN Len(a) ELSE Len(b)) :
        /\ digit(a, i) < digit(b, i)
        /\ \A j \in 1..(i - 1) : digit(a, j) = digit(b, j)

\* float('nan')
nan == [kind |-> "nan", negative |-> FALSE, significand |-> <<>>, exponent |-> 0]

\* float('inf') and float('-inf')
inf(negative) ==
    [kind |-> "inf", negative |-> negative, significand |-> <<>>, exponent |-> 0]

\* the float 0.0
float_zero ==
    [kind |-> "finite", negative |-> FALSE, significand |-> <<>>, exponent |-> 0]

\* 0.0, and -0.0 when negative
signed_zero(negative) == [float_zero EXCEPT !.negative = negative]

\* x == 0 for a float x: 0.0 or -0.0
is_zero(x) == x.kind = "finite" /\ x.significand = <<>>

\* the width of the significand of a float (IEEE 754 binary64)
mant_dig == 53

\* the float with the value bits * 2^exponent, for at most mant_dig
\* significant digits: the zeros at both ends of bits are dropped
finite(negative, bits, exponent) ==
    LET kept == without_trailing_zeros(bits) IN
    IF kept = <<>> THEN signed_zero(negative)
    ELSE [kind |-> "finite", negative |-> negative,
          significand |-> without_leading_zeros(kept),
          exponent |-> exponent + Len(bits) - Len(kept)]

\* the float nearest to the positive value that bits (first digit 1) and
\* the exponent of its last digit hold, plus a part below the last digit
\* that is not zero when inexact (bits has more than mant_dig digits then):
\* to the nearest significand, a tie to the even one
nearest_float(negative, bits, exponent, inexact) ==
    IF Len(bits) <= mant_dig THEN finite(negative, bits, exponent)
    ELSE
    LET kept == SubSeq(bits, 1, mant_dig)
        rest == SubSeq(bits, mant_dig + 1, Len(bits))
        half == rest[1] = 1
        more == inexact \/ \E i \in 2..Len(rest) : rest[i] = 1
        up == half /\ (more \/ kept[mant_dig] = 1)
    IN finite(negative, IF up THEN increment(kept) ELSE kept, exponent + Len(rest))

\* float(k) of an int k
float_of_int(k) == finite(k < 0, bits_of(IF k < 0 THEN 0 - k ELSE k), 0)

\* x + y
float_add(x, y) ==
    IF x.kind = "nan" \/ y.kind = "nan" THEN nan
    ELSE IF x.kind = "inf"
         THEN (IF y.kind = "inf" /\ y.negative # x.negative THEN nan ELSE x)
    ELSE IF y.kind = "inf" THEN y
    ELSE IF is_zero(x) /\ is_zero(y) THEN signed_zero(x.negative /\ y.negative)
    ELSE IF is_zero(x) THEN y
    ELSE IF is_zero(y) THEN x
    ELSE
    LET e == IF x.exponent < y.exponent THEN x.exponent ELSE y.exponent
        a == x.significand \o zeros(x.exponent - e)
        b == y.significand \o zeros(y.exponent - e)
        a_less == Len(a) < Len(b) \/ (Len(a) = Len(b) /\ digits_less(a, b))
    IN IF x.negative = y.negative
       THEN nearest_float(x.negative, plus(a, b), e, FALSE)
       ELSE IF a = b THEN float_zero
       ELSE IF a_less THEN nearest_float(y.negative, minus(b, a), e, FALSE)
       ELSE nearest_float(x.negative, minus(a, b), e, FALSE)

\* k * x and x * k for a float x and an int (or a float holding the whole
\* number) k, -2^limb_bits < k < 2^limb_bits
float_mul(x, k) ==
    IF x.kind = "nan" THEN nan
    ELSE IF x.kind = "inf"
         THEN (IF k = 0 THEN nan ELSE inf(x.negative # (k < 0)))
    ELSE IF k = 0 \/ is_zero(x) THEN signed_zero(x.negative # (k < 0))
    ELSE nearest_float(x.negative # (k < 0),
                       times(x.significand, IF k < 0 THEN 0 - k ELSE k),
                       x.exponent, FALSE)

\* the long division holds its remainder and its divisor, naturals below
\* 2^(mant_dig + 1), in two halves of half_bits digits
half_bits == 30

\* the naturals below half_base are the values of a half
half_base == pow2(half_bits)

halves_of(bits) ==
    IF Len(bits) <= half_bits THEN [hi |-> 0, lo |-> nat_of(bits)]
    ELSE [hi |-> nat_of(SubSeq(bits, 1, Len(bits) - half_bits)),
          lo |-> nat_of(SubSeq(bits, Len(bits) - half_bits + 1, Len(bits)))]

\* one step of the long division: the next digit of the dividend is
\* brought down, and the divisor taken off when it fits
div_step(remainder, den, next) ==
    LET low == 2 * remainder.lo + next
        down == [hi |-> 2 * remainder.hi + low \div half_base,
                 lo |-> low % half_base]
        fits == down.hi > den.hi \/ (down.hi = den.hi /\ down.lo >= den.lo)
    IN IF ~fits THEN [digit |-> 0, remainder |-> down]
       ELSE IF down.lo >= den.lo
       THEN [digit |-> 1,
             remainder |-> [hi |-> down.hi - den.hi, lo |-> down.lo - den.lo]]
       ELSE [digit |-> 1,
             remainder |-> [hi |-> down.hi - den.hi - 1,
                            lo |-> down.lo + half_base - den.lo]]

\* the steps of the long division for the digits of feed: the digits of
\* the quotient they give and the remainder left
RECURSIVE div_digits(_, _, _)
div_digits(remainder, den, feed) ==
    IF feed = <<>> THEN [digits |-> <<>>, remainder |-> remainder]
    ELSE LET step == div_step(remainder, den, Head(feed))
             rest == div_digits(step.remainder, den, Tail(feed))
         IN [digits |-> <<step.digit>> \o rest.digits, remainder |-> rest.remainder]

\* long division, 8 steps at a time
RECURSIVE division_loop(_, _, _, _)
division_loop(remainder, den, feed, quotient) ==
    IF feed = <<>> THEN [quotient |-> quotient, remainder |-> remainder]
    ELSE LET count == IF Len(feed) < 8 THEN Len(feed) ELSE 8
             steps == div_digits(remainder, den, SubSeq(feed, 1, count))
         IN division_loop(steps.remainder, den, SubSeq(feed, count + 1, Len(feed)),
                          quotient \o steps.digits)

\* x / y for y # 0 (Python raises ZeroDivisionError for y = 0): the float
\* nearest to the quotient. The dividend is continued with zeros until the
\* quotient has more than mant_dig + 1 digits; the digits before the
\* divisor's length is reached give no quotient digit and start the
\* remainder
float_div(x, y) ==
    IF x.kind = "nan" \/ y.kind = "nan" THEN nan
    ELSE IF x.kind = "inf"
         THEN (IF y.kind = "inf" THEN nan ELSE inf(x.negative # y.negative))
    ELSE IF y.kind = "inf" \/ is_zero(x) THEN signed_zero(x.negative # y.negative)
    ELSE
    LET short == mant_dig + 2 + Len(y.significand) - Len(x.significand)
        more == IF short > 0 THEN short ELSE 0
        dividend == x.significand \o zeros(more)
        start == Len(y.significand) - 1
        d == division_loop(halves_of(SubSeq(dividend, 1, start)),
                           halves_of(y.significand),
                           SubSeq(dividend, start + 1, Len(dividend)), <<>>)
    IN nearest_float(x.negative # y.negative, without_leading_zeros(d.quotient),
                     x.exponent - y.exponent - more,
                     d.remainder.hi # 0 \/ d.remainder.lo # 0)

\* x < y on floats: False when either is a NaN
float_lt(x, y) ==
    IF x.kind = "nan" \/ y.kind = "nan" \/ x = y THEN FALSE
    ELSE IF x.kind = "inf" THEN x.negative
    ELSE IF y.kind = "inf" THEN ~y.negative
    ELSE IF is_zero(x) THEN ~is_zero(y) /\ ~y.negative
    ELSE IF is_zero(y) THEN x.negative
    ELSE IF x.negative # y.negative THEN x.negative
    ELSE
    LET top_x == x.exponent + Len(x.significand)
        top_y == y.exponent + Len(y.significand)
        smaller == \/ top_x < top_y
                   \/ top_x = top_y /\ digits_less(x.significand, y.significand)
    IN IF x.negative THEN ~smaller ELSE smaller

\* x <= y on floats: False when either is a NaN
float_le(x, y) ==
    /\ x.kind # "nan"
    /\ y.kind # "nan"
    /\ (x = y \/ (is_zero(x) /\ is_zero(y)) \/ float_lt(x, y))

\* the integer nearest to the exact value of 100 * x for a finite x, a tie
\* to the even one
hundredths(x) ==
    LET scaled == times(x.significand, 100)
        len == Len(scaled)
        below == 0 - x.exponent
        whole == IF below >= len THEN 0 ELSE nat_of(SubSeq(scaled, 1, len - below))
        half == below <= len /\ scaled[len - below + 1] = 1
        more == \E i \in (len - below + 2)..len : i >= 1 /\ scaled[i] = 1
        nearest == IF x.exponent >= 0 THEN nat_of(scaled) * pow2(x.exponent)
                   ELSE IF ~half THEN whole
                   ELSE IF more \/ whole % 2 = 1 THEN whole + 1
                   ELSE whole
    IN IF is_zero(x) THEN 0
       ELSE IF x.negative THEN 0 - nearest
       ELSE nearest

\* round(x, 2): the float nearest to the decimal with two places nearest
\* to the exact value of x, a zero with the sign of x; a NaN or an
\* infinity is returned as it is
round_2(x) ==
    IF x.kind # "finite" THEN x
    ELSE IF hundredths(x) = 0 THEN signed_zero(x.negative)
    ELSE float_div(float_of_int(hundredths(x)), float_of_int(100))

----------------------------------------------------------------------------
(* validate_and_filter *)

required_fields ==
    <<"TransactionID", "Date", "ProductID", "ProductName",
      "Quantity", "UnitPrice", "CustomerID", "Region">>

\* all(field in tx for field in required_fields)
has_required_fields(tx) ==
    \A i \in 1..Len(required_fields) : required_fields[i] \in DOMAIN tx

\* the five rejection tests of the validation loop, in the order of the
\* code; Quantity is an int and UnitPrice a float, and `UnitPrice <= 0` is
\* false for a NaN
rejected(tx) ==
    \/ ~has_required_fields(tx)
    \/ (tx["Quantity"] <= 0 \/ float_le(tx["UnitPrice"], float_zero))
    \/ ~startswith(tx["TransactionID"], "T")
    \/ ~startswith(tx["ProductID"], "P")
    \/ ~startswith(tx["CustomerID"], "C")

\* the validation loop: valid_transactions and invalid_count after the
\* records of txs have been visited in order
RECURSIVE validation_loop(_, _, _)
validation_loop(txs, valid, invalid) ==
    IF txs = <<>>
    THEN [valid_transactions |-> valid, invalid_count |-> invalid]
    ELSE IF rejected(Head(txs))
         THEN validation_loop(Tail(txs), valid, invalid + 1)
         ELSE validation_loop(Tail(txs), Append(valid, Head(txs)), invalid)

\* the set built by available_regions.add(tx.get("Region"))
available_regions(txs) == { get(txs[i], "Region") : i \in 1..Len(txs) }

\* sorted(available_regions) compares the elements pairwise: it raises
\* TypeError when the set holds None together with a str
sorted_regions_raises(txs) ==
    /\ None \in available_regions(txs)
    /\ \E r \in available_regions(txs) : r # None

\* region_filter written as removal from the list being iterated: after a
\* removal the iterator skips the record that moved into the freed slot
RECURSIVE remove_while_iterating(_, _)
remove_while_iterating(valid, reg) ==
    IF valid = <<>> THEN <<>>
    ELSE IF Head(valid)["Region"] = reg[1]
         THEN <<Head(valid)>> \o remove_while_iterating(Tail(valid), reg)
         ELSE IF Tail(valid) = <<>> THEN <<>>
              ELSE <<Head(Tail(valid))>>
                   \o remove_while_iterating(Tail(Tail(valid)), reg)

\* [tx for tx in valid_transactions if tx["Region"] == region]
region_filter(valid, reg) ==
    SelectSeq(valid, LAMBDA tx : tx["Region"] = reg[1])

\* the nested function in_range of the amount filter: `amount <
\* min_amount` and `amount > max_amount` are false when the amount or the
\* bound is a NaN
in_range(tx, lo, hi) ==
    LET amount == float_mul(tx["UnitPrice"], tx["Quantity"]) IN
    IF lo # None /\ float_lt(amount, lo[1]) THEN FALSE
    ELSE IF hi # None /\ float_lt(hi[1], amount) THEN FALSE
    ELSE TRUE

\* [tx for tx in valid_transactions if in_range(tx)]
amount_filter(valid, lo, hi) ==
    SelectSeq(valid, LAMBDA tx : in_range(tx, lo, hi))

\* validate_and_filter(transactions, region, min_amount, max_amount): its
\* outcome, either the exception raised or the returned triple
validate_and_filter(txs, reg, lo, hi) ==
    IF sorted_regions_raises(txs)
    THEN [raised |-> "TypeError"]
    ELSE
    LET loop == validation_loop(txs, <<>>, 0)
        after_region ==
            IF TruthyStr(reg)
            THEN region_filter(loop.valid_transactions, reg)
            ELSE loop.valid_transactions
        filtered_by_region ==
            IF TruthyStr(reg)
            THEN Len(loop.valid_transactions) - Len(after_region)
            ELSE 0
        after_amount ==
            IF lo # None \/ hi # None
            THEN amount_filter(after_region, lo, hi)
            ELSE after_region
        filtered_by_amount ==
            IF lo # None \/ hi # None
            THEN Len(after_region) - Len(after_amount)
            ELSE 0
    IN [raised |-> "",
        valid_transactions |-> after_amount,
        invalid_count |-> loop.invalid_count,
        filter_summary |->
            [total_input |-> Len(txs),
             invalid |-> loop.invalid_count,
             filtered_by_region |-> filtered_by_region,
             filtered_by_amount |-> filtered_by_amount,
             final_count |-> Len(after_amount)]]

----------------------------------------------------------------------------
(* Helpers of the aggregation functions *)

\* A dict that the code fills key by key is the sequence of its entries in
\* insertion order, each entry a record with the field "key".

\* position of key among the entries, 0 when the dict does not hold it
index_of(entries, key) ==
    IF \E i \in 1..Len(entries) : entries[i].key = key
    THEN CHOOSE i \in 1..Len(entries) : entries[i].key = key
    ELSE 0

\* list.sort / sorted: a stable sort, ascending in the integer keys
\* (keys[i] is the key of seq[i]); under reverse=True the keys are negated.
\* The record at index i lands behind the records with a smaller key and
\* the earlier records with an equal key
stable_sort(seq, keys) ==
    LET pos(i) ==
            1 + Cardinality({ j \in 1..Len(seq) :
                    \/ keys[j] < keys[i]
                    \/ keys[j] = keys[i] /\ j < i })
    IN [p \in 1..Len(seq) |-> seq[CHOOSE i \in 1..Len(seq) : pos(i) = p]]

\* the list seq in the opposite order
reversed(seq) == [i \in 1..Len(seq) |-> seq[Len(seq) + 1 - i]]

\* list.sort on a list shorter than 64 sorts by binary insertion. The
\* list is held as the sequence order of the indices of its items, and
\* less[i][j] is the comparison key(i) < key(j).
\* The run the list begins with, order[1..i-1], ends where the comparison
\* of an item with the one before it changes
RECURSIVE run_end(_, _, _, _)
run_end(order, less, descending, i) ==
    IF i > Len(order) THEN Len(order)
    ELSE IF less[order[i]][order[i - 1]] = descending
         THEN run_end(order, less, descending, i + 1)
    ELSE i - 1

\* the place of pivot among the sorted items order[l..r-1]
RECURSIVE binary_search(_, _, _, _, _)
binary_search(order, less, pivot, l, r) ==
    IF l >= r THEN l
    ELSE LET p == l + (r - l) \div 2 IN
         IF less[pivot][order[p]] THEN binary_search(order, less, pivot, l, p)
         ELSE binary_search(order, less, pivot, p + 1, r)

\* the items from start on are put, one by one, into the sorted items
\* before them
RECURSIVE binarysort(_, _, _)
binarysort(order, less, start) ==
    IF start > Len(order) THEN order
    ELSE LET pivot == order[start]
             l == binary_search(order, less, pivot, 1, start)
         IN binarysort(SubSeq(order, 1, l - 1) \o <<pivot>>
                         \o SubSeq(order, l, start - 1)
                         \o SubSeq(order, start + 1, Len(order)),
                       less, start + 1)

\* sorted(list, key=..., reverse=True) for float keys (keys[i] is the key
\* of seq[i]): the list is reversed, its first run is found (and reversed
\* when it descends), the other items are inserted, and the outcome is
\* reversed. For keys without a NaN this is the stable sort in descending
\* order; a comparison with a NaN is false, and the order then follows
\* from the comparisons made
sorted_reverse(seq, keys) ==
    LET count == Len(seq)
        less == [i \in 1..count |-> [j \in 1..count |-> float_lt(keys[i], keys[j])]]
        first == reversed([i \in 1..count |-> i])
        descending == count >= 2 /\ less[first[2]][first[1]]
        run == IF count < 2 THEN count ELSE run_end(first, less, descending, 3)
        with_run == IF descending
                    THEN reversed(SubSeq(first, 1, run)) \o SubSeq(first, run + 1, count)
                    ELSE first
        order == reversed(binarysort(with_run, less, run + 1))
    IN [p \in 1..count |-> seq[order[p]]]

\* the characters that str comparison meets in the model, in code point
\* order
alphabet ==
    <<",", "-", "0", "1", "2", "3", "4", "5", "6", "7", "8", "9",
      "C", "D", "K", "L", "M", "N", "P", "S", "T", "X", "t", "|">>

\* ord(c), up to an order-preserving renumbering
ord(c) == CHOOSE i \in 1..Len(alphabet) : alphabet[i] = c

\* a <= b for Python str: lexicographic by code point
RECURSIVE str_le(_, _)
str_le(a, b) ==
    IF a = <<>> THEN TRUE
    ELSE IF b = <<>> THEN FALSE
    ELSE IF Head(a) = Head(b) THEN str_le(Tail(a), Tail(b))
    ELSE ord(Head(a)) < ord(Head(b))

\* list[:n]
slice_to(list, k) ==
    IF k >= 0
    THEN SubSeq(list, 1, IF k < Len(list) THEN k ELSE Len(list))
    ELSE SubSeq(list, 1, IF Len(list) + k > 0 THEN Len(list) + k ELSE 0)

----------------------------------------------------------------------------
(* calculate_total_revenue *)

\* total_revenue after the records of txs
RECURSIVE total_revenue(_)
total_revenue(txs) ==
    IF txs = <<>> THEN float_zero
    ELSE float_add(total_revenue(SubSeq(txs, 1, Len(txs) - 1)),
                   float_mul(txs[Len(txs)]["UnitPrice"], txs[Len(txs)]["Quantity"]))

calculate_total_revenue(txs) == [raised |-> "", value |-> total_revenue(txs)]

----------------------------------------------------------------------------
(* region_wise_sales *)

\* region_data that counts a record only when its region is already held
RECURSIVE region_data_counts_known_regions(_)
region_data_counts_known_regions(txs) ==
    IF txs = <<>> THEN <<>>
    ELSE
    LET before == region_data_counts_known_regions(SubSeq(txs, 1, Len(txs) - 1))
        tx == txs[Len(txs)]
        sale_amount == float_mul(tx["UnitPrice"], tx["Quantity"])
        i == index_of(before, tx["Region"])
    IN IF i = 0
       THEN Append(before, [key |-> tx["Region"], total_sales |-> sale_amount,
                            transaction_count |-> 0])
       ELSE [before EXCEPT ![i].total_sales = float_add(@, sale_amount),
                           ![i].transaction_count = @ + 1]

\* first pass: region_data after the records of txs
RECURSIVE region_data(_)
region_data(txs) ==
    IF txs = <<>> THEN <<>>
    ELSE
    LET before == region_data(SubSeq(txs, 1, Len(txs) - 1))
        tx == txs[Len(txs)]
        sale_amount == float_mul(tx["UnitPrice"], tx["Quantity"])
        i == index_of(before, tx["Region"])
        held == IF i = 0
                THEN Append(before, [key |-> tx["Region"], total_sales |-> float_zero,
                                     transaction_count |-> 0])
                ELSE before
        j == IF i = 0 THEN Len(held) ELSE i
    IN [held EXCEPT ![j].total_sales = float_add(@, sale_amount),
                    ![j].transaction_count = @ + 1]

\* first pass: total_sales_all_regions after the records of txs
RECURSIVE total_sales_all_regions(_)
total_sales_all_regions(txs) ==
    IF txs = <<>> THEN float_zero
    ELSE float_add(total_sales_all_regions(SubSeq(txs, 1, Len(txs) - 1)),
                   float_mul(txs[Len(txs)]["UnitPrice"], txs[Len(txs)]["Quantity"]))

\* second pass: round((total_sales / total) * 100, 2)
with_percentage(data, total) ==
    [i \in 1..Len(data) |->
        [key |-> data[i].key,
         total_sales |-> data[i].total_sales,
         transaction_count |-> data[i].transaction_count,
         percentage |-> round_2(float_mul(float_div(data[i].total_sales, total),
                                          100))]]

\* key=lambda item: item[1]["total_sales"]
by_total_sales(data) == [i \in 1..Len(data) |-> data[i].total_sales]

\* the outcome of region_wise_sales: the division of the second pass raises
\* ZeroDivisionError when the grand total is 0 and a region is present
region_wise_sales(txs) ==
    LET data == region_data(txs)
        total == total_sales_all_regions(txs)
    IN IF data # <<>> /\ is_zero(total)
       THEN [raised |-> "ZeroDivisionError"]
       ELSE [raised |-> "",
             value |-> sorted_reverse(with_percentage(data, total),
                                      by_total_sales(data))]

----------------------------------------------------------------------------
(* top_selling_products and low_performing_products *)

\* the aggregation loop both functions run: product_data after txs
RECURSIVE product_data(_)
product_data(txs) ==
    IF txs = <<>> THEN <<>>
    ELSE
    LET before == product_data(SubSeq(txs, 1, Len(txs) - 1))
        tx == txs[Len(txs)]
        i == index_of(before, tx["ProductName"])
        held == IF i = 0
                THEN Append(before, [key |-> tx["ProductName"], total_quantity |-> 0,
                                     total_revenue |-> float_zero])
                ELSE before
        j == IF i = 0 THEN Len(held) ELSE i
    IN [held EXCEPT ![j].total_quantity = @ + tx["Quantity"],
                    ![j].total_revenue =
                        float_add(@, float_mul(tx["UnitPrice"], tx["Quantity"]))]

\* the tuple (product, total_quantity, total_revenue) of each entry
product_list(data) ==
    [i \in 1..Len(data) |->
        <<data[i].key, data[i].total_quantity, data[i].total_revenue>>]

\* the sort key of top_selling_products taken from the revenue column
by_revenue_desc(list) == [i \in 1..Len(list) |-> 0 - hundredths(list[i][3])]

\* key=lambda x: x[1], reverse=True
by_quantity_desc(list) == [i \in 1..Len(list) |-> 0 - list[i][2]]

\* key=lambda x: x[1]
by_quantity_asc(list) == [i \in 1..Len(list) |-> list[i][2]]

top_selling_products(txs, k) ==
    LET list == product_list(product_data(txs)) IN
    [raised |-> "",
     value |-> slice_to(stable_sort(list, by_quantity_desc(list)), k)]

\* the threshold test with <= for <
at_or_below_threshold(entry, t) == entry.total_quantity <= t

\* the test data["total_quantity"] < threshold
below_threshold(entry, t) == entry.total_quantity < t

low_performing_products(txs, t) ==
    LET low_products ==
            product_list(SelectSeq(product_data(txs),
                                   LAMBDA e : below_threshold(e, t)))
    IN [raised |-> "",
        value |-> stable_sort(low_products, by_quantity_asc(low_products))]

----------------------------------------------------------------------------
(* customer_analysis *)

\* the aggregation loop: customer_data after txs; products_bought is a set
RECURSIVE customer_data(_)
customer_data(txs) ==
    IF txs = <<>> THEN <<>>
    ELSE
    LET before == customer_data(SubSeq(txs, 1, Len(txs) - 1))
        tx == txs[Len(txs)]
        i == index_of(before, tx["CustomerID"])
        held == IF i = 0
                THEN Append(before, [key |-> tx["CustomerID"], total_spent |-> float_zero,
                                     purchase_count |-> 0, products_bought |-> {}])
                ELSE before
        j == IF i = 0 THEN Len(held) ELSE i
    IN [held EXCEPT ![j].total_spent =
                        float_add(@, float_mul(tx["UnitPrice"], tx["Quantity"])),
                    ![j].purchase_count = @ + 1,
                    ![j].products_bought = @ \cup {tx["ProductName"]}]

\* round(total_spent / purchase_count, 2); the list made of the set
\* products_bought has no defined order and stays a set
with_avg_order_value(data) ==
    [i \in 1..Len(data) |->
        [key |-> data[i].key,
         total_spent |-> data[i].total_spent,
         purchase_count |-> data[i].purchase_count,
         products_bought |-> data[i].products_bought,
         avg_order_value |->
             round_2(float_div(data[i].total_spent,
                               float_of_int(data[i].purchase_count)))]]

\* key=lambda item: item[1]["total_spent"]
by_total_spent(data) == [i \in 1..Len(data) |-> data[i].total_spent]

customer_analysis(txs) ==
    LET data == customer_data(txs) IN
    [raised |-> "",
     value |-> sorted_reverse(with_avg_order_value(data), by_total_spent(data))]

----------------------------------------------------------------------------
(* daily_sales_trend *)

RECURSIVE daily_data(_)
daily_data(txs) ==
    IF txs = <<>> THEN <<>>
    ELSE
    LET before == daily_data(SubSeq(txs, 1, Len(txs) - 1))
        tx == txs[Len(txs)]
        i == index_of(before, tx["Date"])
        held == IF i = 0
                THEN Append(before, [key |-> tx["Date"], revenue |-> float_zero,
                                     transaction_count |-> 0, customers |-> {}])
                ELSE before
        j == IF i = 0 THEN Len(held) ELSE i
    IN [held EXCEPT ![j].revenue =
                        float_add(@, float_mul(tx["UnitPrice"], tx["Quantity"])),
                    ![j].transaction_count = @ + 1,
                    ![j].customers = @ \cup {tx["CustomerID"]}]

\* sorted(daily_data.keys()): the key of a date is the number of dates
\* before it in str order
by_date_asc(data) ==
    [i \in 1..Len(data) |->
        Cardinality({ j \in 1..Len(data) : ~str_le(data[i].key, data[j].key) })]

daily_sales_trend(txs) ==
    LET data == daily_data(txs)
        sorted == stable_sort(data, by_date_asc(data)) IN
    [raised |-> "",
     value |-> [i \in 1..Len(sorted) |->
                 [key |-> sorted[i].key,
                  revenue |-> sorted[i].revenue,
                  transaction_count |-> sorted[i].transaction_count,
                  unique_customers |-> Cardinality(sorted[i].customers)]]]

----------------------------------------------------------------------------
(* find_peak_sales_day *)

RECURSIVE daily_totals(_)
daily_totals(txs) ==
    IF txs = <<>> THEN <<>>
    ELSE
    LET before == daily_totals(SubSeq(txs, 1, Len(txs) - 1))
        tx == txs[Len(txs)]
        i == index_of(before, tx["Date"])
        held == IF i = 0
                THEN Append(before, [key |-> tx["Date"], revenue |-> float_zero,
                                     transaction_count |-> 0])
                ELSE before
        j == IF i = 0 THEN Len(held) ELSE i
    IN [held EXCEPT ![j].revenue =
                        float_add(@, float_mul(tx["UnitPrice"], tx["Quantity"])),
                    ![j].transaction_count = @ + 1]

\* peak_loop replacing the peak on >= for >: the last date seen wins a tie
RECURSIVE peak_loop_last_wins(_, _)
peak_loop_last_wins(totals, peak) ==
    IF totals = <<>> THEN peak
    ELSE IF float_le(peak[2], Head(totals).revenue)
         THEN peak_loop_last_wins(Tail(totals),
                        <<Some(Head(totals).key), Head(totals).revenue,
                          Head(totals).transaction_count>>)
         ELSE peak_loop_last_wins(Tail(totals), peak)

\* the loop over daily_totals.items(): (peak_date, peak_revenue,
\* peak_tx_count) after the entries of totals
RECURSIVE peak_loop(_, _)
peak_loop(totals, peak) ==
    IF totals = <<>> THEN peak
    ELSE IF float_lt(peak[2], Head(totals).revenue)
         THEN peak_loop(Tail(totals),
                        <<Some(Head(totals).key), Head(totals).revenue,
                          Head(totals).transaction_count>>)
         ELSE peak_loop(Tail(totals), peak)

\* find_peak_sales_day written with max(), which raises on no dates
find_peak_sales_day_by_max(txs) ==
    IF daily_totals(txs) = <<>>
    THEN [raised |-> "ValueError"]
    ELSE [raised |-> "", value |-> peak_loop(daily_totals(txs), <<None, float_zero, 0>>)]

find_peak_sales_day(txs) ==
    [raised |-> "", value |-> peak_loop(daily_totals(txs), <<None, float_zero, 0>>)]

----------------------------------------------------------------------------
(* create_product_mapping *)

\* A catalog product is a record with the six keys fetch_all_products gives
\* it; each value is optional (None for a JSON null or a missing key).

\* product_mapping after the products of api: an entry per id in insertion
\* order, a later product with the same id replacing the entry's value
RECURSIVE create_product_mapping(_)
create_product_mapping(api) ==
    IF api = <<>> THEN <<>>
    ELSE
    LET before == create_product_mapping(SubSeq(api, 1, Len(api) - 1))
        product == api[Len(api)]
        entry == [key |-> product.id, title |-> product.title,
                  category |-> product.category, brand |-> product.brand,
                  rating |-> product.rating]
        i == index_of(before, product.id)
    IN IF i = 0 THEN Append(before, entry) ELSE [before EXCEPT ![i] = entry]

----------------------------------------------------------------------------
(* enrich_sales_data *)

digits == <<"0", "1", "2", "3", "4", "5", "6", "7", "8", "9">>

is_digit(c) == \E i \in 1..Len(digits) : digits[i] = c

digit_value(c) == (CHOOSE i \in 1..Len(digits) : digits[i] = c) - 1

\* str.replace(old, ''): every occurrence of the character old removed
replace_with_empty(s, old) == SelectSeq(s, LAMBDA c : c # old)

\* str.strip() as int() applies it: blanks removed at both ends
RECURSIVE lstrip(_)
lstrip(s) == IF s # <<>> /\ Head(s) = " " THEN lstrip(Tail(s)) ELSE s

RECURSIVE rstrip(_)
rstrip(s) ==
    IF s # <<>> /\ s[Len(s)] = " " THEN rstrip(SubSeq(s, 1, Len(s) - 1)) ELSE s

\* the digit part of an int literal: digits, with single underscores
\* between digits only
is_digit_part(s) ==
    /\ s # <<>>
    /\ \A i \in 1..Len(s) : is_digit(s[i]) \/ s[i] = "_"
    /\ \A i \in 1..Len(s) :
         s[i] = "_" => /\ i > 1 /\ i < Len(s)
                       /\ is_digit(s[i - 1]) /\ is_digit(s[i + 1])

RECURSIVE decimal_value(_)
decimal_value(s) ==
    IF s = <<>> THEN 0
    ELSE IF s[Len(s)] = "_" THEN decimal_value(SubSeq(s, 1, Len(s) - 1))
    ELSE 10 * decimal_value(SubSeq(s, 1, Len(s) - 1)) + digit_value(s[Len(s)])

\* int(s): the value, or None where int raises ValueError (of the
\* whitespace int accepts, the model's strings hold only the blank)
int_of_str(s) ==
    LET t == rstrip(lstrip(s))
        signed == t # <<>> /\ Head(t) \in {"+", "-"}
        body == IF signed THEN Tail(t) ELSE t
    IN IF ~is_digit_part(body) THEN None
       ELSE IF signed /\ Head(t) = "-" THEN Some(0 - decimal_value(body))
       ELSE Some(decimal_value(body))

\* the try block: numeric_id of a record
numeric_id(tx) ==
    LET product_id_str == IF "ProductID" \in DOMAIN tx THEN tx["ProductID"] ELSE <<>>
    IN int_of_str(replace_with_empty(product_id_str, "P"))

\* the test `numeric_id and numeric_id in product_mapping`: None and 0 are
\* falsy
is_match(id, mapping) ==
    /\ id # None
    /\ id[1] # 0
    /\ index_of(mapping, Some(id[1])) # 0

\* the dict d with the key k set to v
with_key(d, k, v) ==
    [f \in DOMAIN d \cup {k} |-> IF f = k THEN v ELSE d[f]]

\* the body of the loop: enriched_tx of one record
enrich(tx, mapping) ==
    LET id == numeric_id(tx) IN
    IF is_match(id, mapping)
    THEN LET api_product == mapping[index_of(mapping, Some(id[1]))] IN
         with_key(with_key(with_key(with_key(tx,
             "API_Category", api_product.category),
             "API_Brand", api_product.brand),
             "API_Rating", api_product.rating),
             "API_Match", TRUE)
    ELSE with_key(with_key(with_key(with_key(tx,
             "API_Category", None),
             "API_Brand", None),
             "API_Rating", None),
             "API_Match", FALSE)

\* enrich_sales_data appending a record only when it matched
enrich_sales_data_matches_only(txs, mapping) ==
    LET all == [i \in 1..Len(txs) |-> enrich(txs[i], mapping)]
    IN SelectSeq(all, LAMBDA e : e["API_Match"])

\* the list enrich_sales_data returns
enrich_sales_data(txs, mapping) ==
    [i \in 1..Len(txs) |-> enrich(txs[i], mapping)]

----------------------------------------------------------------------------
(* parse_transactions *)

\* str.split(sep) for a one-character sep
RECURSIVE split(_, _)
split(s, sep) ==
    IF \A i \in 1..Len(s) : s[i] # sep THEN <<s>>
    ELSE LET i == CHOOSE k \in 1..Len(s) :
                    s[k] = sep /\ \A j \in 1..(k - 1) : s[j] # sep
         IN <<SubSeq(s, 1, i - 1)>> \o split(SubSeq(s, i + 1, Len(s)), sep)

\* str.lower() of a character, for the capitals the model's strings hold
\* (those of "INFINITY", "NAN" and "Y")
lower(c) ==
    CASE c = "I" -> "i"
      [] c = "N" -> "n"
      [] c = "F" -> "f"
      [] c = "T" -> "t"
      [] c = "Y" -> "y"
      [] c = "A" -> "a"
      [] OTHER -> c

RECURSIVE pow10(_)
pow10(k) == IF k = 0 THEN 1 ELSE 10 * pow10(k - 1)

\* the float nearest to the decimal value mantissa * 10^exponent, with
\* the sign read
decimal(negative, mantissa, exponent) ==
    LET value == IF exponent >= 0 THEN float_of_int(mantissa * pow10(exponent))
                 ELSE float_div(float_of_int(mantissa),
                                float_of_int(pow10(0 - exponent)))
    IN [value EXCEPT !.negative = negative]

\* the positions of the character c in s
positions(s, c) == { i \in 1..Len(s) : s[i] = c }

\* float() of an unsigned float_number: [digitpart] "." digitpart or
\* digitpart ["."], then an optional exponent
float_number(body, negative) ==
    LET es == positions(body, "e") \cup positions(body, "E")
        e == IF es = {} THEN Len(body) + 1 ELSE CHOOSE i \in es : TRUE
        number == SubSeq(body, 1, e - 1)
        exponent == SubSeq(body, e + 1, Len(body))
        exponent_value == IF es = {} THEN Some(0) ELSE int_of_str(exponent)
        dots == positions(number, ".")
        d == IF dots = {} THEN Len(number) + 1 ELSE CHOOSE i \in dots : TRUE
        int_part == SubSeq(number, 1, d - 1)
        fraction == SubSeq(number, d + 1, Len(number))
        fraction_digits == replace_with_empty(fraction, "_")
        well_formed ==
            /\ Cardinality(es) <= 1
            /\ Cardinality(dots) <= 1
            /\ int_part = <<>> \/ is_digit_part(int_part)
            /\ fraction = <<>> \/ is_digit_part(fraction)
            /\ int_part # <<>> \/ fraction # <<>>
            /\ es # {} => /\ exponent_value # None
                          /\ exponent = rstrip(lstrip(exponent))
        digits_value == decimal_value(int_part \o fraction_digits)
    IN IF ~well_formed THEN None
       ELSE Some(decimal(negative, digits_value,
                         exponent_value[1] - Len(fraction_digits)))

\* float(s): the value, or None where float raises ValueError (the
\* model's strings hold no more decimal digits than an int of the model
\* holds, and no value beyond the range of a float)
float_of_str(s) ==
    LET t == rstrip(lstrip(s))
        signed == t # <<>> /\ Head(t) \in {"+", "-"}
        negative == signed /\ Head(t) = "-"
        body == IF signed THEN Tail(t) ELSE t
        low == [i \in 1..Len(body) |-> lower(body[i])]
    IN IF low \in {<<"i", "n", "f">>, <<"i", "n", "f", "i", "n", "i", "t", "y">>}
       THEN Some(inf(negative))
       ELSE IF low = <<"n", "a", "n">> THEN Some(nan)
       ELSE float_number(body, negative)

\* the body of the loop: the record built from line, or None where the
\* loop continues without one
parse_line(line) ==
    LET parts == split(line, "|") IN
    IF Len(parts) # 8 THEN None
    ELSE
    LET product_name == replace_with_empty(parts[4], ",")
        quantity == int_of_str(replace_with_empty(parts[5], ","))
        unit_price == float_of_str(replace_with_empty(parts[6], ","))
    IN IF quantity = None \/ unit_price = None THEN None
       ELSE Some([TransactionID |-> parts[1], Date |-> parts[2],
                  ProductID |-> parts[3], ProductName |-> product_name,
                  Quantity |-> quantity[1], UnitPrice |-> unit_price[1],
                  CustomerID |-> parts[7], Region |-> parts[8]])

\* parse_transactions leaving the loop at the first line it drops
RECURSIVE parse_transactions_until_dropped(_)
parse_transactions_until_dropped(lines) ==
    IF lines = <<>> THEN <<>>
    ELSE IF parse_line(Head(lines)) = None THEN <<>>
    ELSE <<parse_line(Head(lines))[1]>>
         \o parse_transactions_until_dropped(Tail(lines))

\* the list parse_transactions returns
RECURSIVE parse_transactions(_)
parse_transactions(lines) ==
    IF lines = <<>> THEN <<>>
    ELSE IF parse_line(Head(lines)) = None THEN parse_transactions(Tail(lines))
    ELSE <<parse_line(Head(lines))[1]>> \o parse_transactions(Tail(lines))

----------------------------------------------------------------------------
(* save_enriched_data *)

headers ==
    <<"TransactionID", "Date", "ProductID", "ProductName",
      "Quantity", "UnitPrice", "CustomerID", "Region",
      "API_Category", "API_Brand", "API_Rating", "API_Match">>

\* str(k) of an int k
RECURSIVE str_of_nat(_)
str_of_nat(k) ==
    IF k < 10 THEN <<digits[k + 1]>>
    ELSE Append(str_of_nat(k \div 10), digits[(k % 10) + 1])

str_of_int(k) == IF k < 0 THEN <<"-">> \o str_of_nat(0 - k) ELSE str_of_nat(k)

\* str(x) of a float x that is a NaN, infinite or a whole number below
\* 2^31
str_of_float(x) ==
    IF x.kind = "nan" THEN <<"n", "a", "n">>
    ELSE (IF x.negative THEN <<"-">> ELSE <<>>)
         \o (IF x.kind = "inf" THEN <<"i", "n", "f">>
             ELSE str_of_nat(nat_of(x.significand) * pow2(x.exponent))
                  \o <<".", "0">>)

\* str(value) of the value a record holds under the header h: Quantity and
\* the rating are ints, UnitPrice is a float,
\* API_Match is a bool, the other values are strs; the API_ values other
\* than API_Match are optional
str_of_value(h, value) ==
    IF h = "Quantity" THEN str_of_int(value)
    ELSE IF h = "UnitPrice" THEN str_of_float(value)
    ELSE IF h = "API_Match"
         THEN (IF value THEN <<"T", "r", "u", "e">> ELSE <<"F", "a", "l", "s", "e">>)
    ELSE IF h = "API_Rating"
         THEN (IF value = None THEN <<>> ELSE str_of_int(value[1]))
    ELSE IF h \in {"API_Category", "API_Brand"}
         THEN (IF value = None THEN <<>> ELSE value[1])
    ELSE value

\* one cell of a row: '' for a missing key or a None value
cell(tx, h) == IF h \in DOMAIN tx THEN str_of_value(h, tx[h]) ELSE <<>>

\* '|'.join(row)
RECURSIVE join(_)
join(row) ==
    IF row = <<>> THEN <<>>
    ELSE IF Len(row) = 1 THEN row[1]
    ELSE row[1] \o <<"|">> \o join(Tail(row))

\* the lines written to the file: the header line, each column name kept
\* as one token, and a line per record
file_lines(enriched) ==
    <<join([i \in 1..Len(headers) |-> <<headers[i]>>])>>
    \o [i \in 1..Len(enriched) |->
          join([j \in 1..Len(headers) |-> cell(enriched[i], headers[j])])]

----------------------------------------------------------------------------
(* The inputs: bounded sets of records and arguments *)

MaxLen == 3

MaxDefectLen == 1

MaxAnalysisLen == 4

MaxEnrichLen == 2

MaxCatalogLen == 2

MaxLines == 3

T1 == <<"T", "1">>

D1 == <<"D", "1">>

D2 == <<"D", "2">>

P1 == <<"P", "1">>

C1 == <<"C", "1">>

C2 == <<"C", "2">>

X1 == <<"X", "1">>

North == <<"N">>

South == <<"S">>

Mouse == <<"M">>

Laptop == <<"L">>

Keyboard == <<"K">>

Tx(tid, date, pid, name, q, p, cid, reg) ==
    [TransactionID |-> tid, Date |-> date, ProductID |-> pid,
     ProductName |-> name, Quantity |-> q, UnitPrice |-> p,
     CustomerID |-> cid, Region |-> reg]

\* the unit price, a float, of so many hundredths: the float that float()
\* reads from the decimal text of the price
Price(cents) == float_div(float_of_int(cents), float_of_int(100))

\* the unit price 2.0, and the one float() reads from the text nan
Two == float_of_int(2)

NotANumber == nan

\* a record as parse_transactions builds it, varying in quantity and region
Sale(q, reg) == Tx(T1, D1, P1, Mouse, q, Two, C1, reg)

\* the dict tx without the key f
Without(tx, f) == [k \in (DOMAIN tx) \ {f} |-> tx[k]]

\* sequences over S of length at most k
SeqsUpTo(S, k) == UNION { [1..m -> S] : m \in 0..k }

Regions == {North, South}

\* records that differ in amount (2, 4) and region; a record of quantity
\* 0, which is rejected; a record with the amount 2.5 and one whose amount
\* is a NaN
FilterPool ==
    { Sale(q, reg) : q \in 1..2, reg \in Regions }
    \cup { Sale(0, North) }
    \cup { [Sale(1, North) EXCEPT !.UnitPrice = p] : p \in {Price(250), NotANumber} }

\* one accepted record and records that each break one rule, or none in
\* the eyes of the validation loop (an empty Region, a unit price that is
\* a NaN or infinite)
DefectPool ==
    {Sale(1, North), Sale(1, <<>>)}
    \cup { Without(Sale(1, North), required_fields[i]) : i \in 1..Len(required_fields) }
    \cup { [Sale(1, North) EXCEPT !.Quantity = -1] }
    \cup { [Sale(1, North) EXCEPT !.UnitPrice = p] :
              p \in { Price(0), Price(-100), NotANumber,
                      inf(FALSE), inf(TRUE) } }
    \cup { [Sale(1, North) EXCEPT !.TransactionID = s] : s \in {<<>>, X1, <<"t", "1">>} }
    \cup { [Sale(1, North) EXCEPT !.ProductID = s] : s \in {<<>>, X1} }
    \cup { [Sale(1, North) EXCEPT !.CustomerID = s] : s \in {<<>>, X1} }

\* region arguments: None, "", and the regions of the records
RegionArgs == {None, Some(<<>>)} \cup { Some(r) : r \in Regions }

\* a rejected record, or one the validation loop does not reject, before
\* and behind an accepted record
MixedLists ==
    { <<tx, Sale(1, North)>> : tx \in DefectPool }
    \cup { <<Sale(1, North), tx>> : tx \in DefectPool }

\* amount bounds: None, a bound equal to an amount (2) and one between two
\* amounts (3)
AmountArgs == {None, Some(Two), Some(float_of_int(3))}

\* the pairs (min_amount, max_amount) passed: each of the bounds above
\* with each, and a NaN as either bound
AmountBounds ==
    (AmountArgs \X AmountArgs)
    \cup { <<Some(NotANumber), None>>, <<None, Some(NotANumber)>> }

----------------------------------------------------------------------------
(* The parser as main() calls it *)

\* the column names of the header line of data/sales_data.txt
columns ==
    <<<<"T", "r", "a", "n", "s", "a", "c", "t", "i", "o", "n", "I", "D">>,
      <<"D", "a", "t", "e">>,
      <<"P", "r", "o", "d", "u", "c", "t", "I", "D">>,
      <<"P", "r", "o", "d", "u", "c", "t", "N", "a", "m", "e">>,
      <<"Q", "u", "a", "n", "t", "i", "t", "y">>,
      <<"U", "n", "i", "t", "P", "r", "i", "c", "e">>,
      <<"C", "u", "s", "t", "o", "m", "e", "r", "I", "D">>,
      <<"R", "e", "g", "i", "o", "n">>>>

\* the line of a record with the quantity and unit price written as q and p
SaleLine(q, p) == join(<<T1, D1, P1, Mouse, q, p, C1, North>>)

\* quantities as written: an int, an int with a thousands separator, and
\* two that int() refuses
QuantityStrs == { <<"1">>, <<"1", ",", "0">>, <<"x">>, <<"1", ".", "0">> }

\* unit prices as written: a whole number, with a separator, with an
\* exponent, a fraction, a NaN, and one that float() refuses
PriceStrs ==
    { <<"2">>, <<"2", ",", "0">>, <<"1", "e", "1">>, <<"2", ".", "5">>,
      <<"n", "a", "n">>, <<"x">> }

\* lines: records varying in one numeric field; a second record with a
\* comma in its name; 7 and 9 fields; an empty line; the header line; a
\* line of 8 fields with numeric quantity and unit price whose first field
\* is the header's first column name
LinePool ==
    { SaleLine(q, <<"2">>) : q \in QuantityStrs }
    \cup { SaleLine(<<"1">>, p) : p \in PriceStrs }
    \cup { join(<<T1, D2, P1, <<"M", ",", "L">>, <<"2">>, <<"4">>, C2, South>>),
           join(<<T1, D1, P1, Mouse, <<"1">>, <<"2">>, C1>>),
           join(<<T1, D1, P1, Mouse, <<"1">>, <<"2">>, C1, North, X1>>),
           <<>>,
           join(columns),
           join(<<columns[1], D1, P1, Mouse, <<"1">>, <<"2">>, C1, North>>) }

InitParse ==
    /\ pc = "read"
    /\ raw_lines \in SeqsUpTo(LinePool, MaxLines)
    /\ transactions = <<>>
    /\ inputs = <<>>
    /\ region = None
    /\ min_amount = None
    /\ max_amount = None
    /\ invalid_count = 0
    /\ filter_summary = None
    /\ error = ""
    /\ result = None
    /\ n = 0
    /\ threshold = 0
    /\ api_products = <<>>
    /\ product_mapping = <<>>
    /\ enriched_transactions = <<>>
    /\ enriched_file = None

\* transactions = parse_transactions(raw_lines)
ParseTransactions ==
    /\ pc = "read"
    /\ pc' = "parsed"
    /\ transactions' = parse_transactions(raw_lines)
    /\ UNCHANGED <<raw_lines, error, filterVars, analysisVars, catalogVars>>

NextParse == ParseTransactions

SpecParse == InitParse /\ [][NextParse]_vars

----------------------------------------------------------------------------
(* The validator/filter as its callers drive it: main()'s step 3, and a   *)
(* caller that passes any arguments                                        *)

\* the answers typed at main's prompts: whether to filter, with a capital
\* and a blank that strip().lower() removes
ChoiceAnswers == { <<"Y", " ">>, <<"n">> }

\* the region typed: nothing, a region after a blank
RegionAnswers == { <<>>, <<" ", "S">> }

\* the minimum typed: nothing, a number, a NaN, a text float() refuses
MinAnswers == { <<>>, <<"2">>, <<"n", "a", "n">>, <<"a", "b", "c">> }

\* the maximum typed: nothing, a number, a number with a comma, which
\* float() refuses
MaxAnswers == { <<>>, <<"3">>, <<"2", ",", "5">> }

\* the state before a call: main after its step 2, with no arguments yet,
\* or a caller other than main about to pass any arguments
InitValidate ==
    /\ \/ /\ pc = "parsed"
          /\ region = None
          /\ min_amount = None
          /\ max_amount = None
       \/ /\ pc = "caller"
          /\ region \in RegionArgs
          /\ \E bounds \in AmountBounds :
                /\ min_amount = bounds[1]
                /\ max_amount = bounds[2]
    /\ raw_lines = <<>>
    /\ transactions \in SeqsUpTo(FilterPool, MaxLen)
                          \cup SeqsUpTo(DefectPool, MaxDefectLen)
                          \cup MixedLists
    /\ inputs = <<>>
    /\ invalid_count = 0
    /\ filter_summary = None
    /\ error = ""
    /\ result = None
    /\ n = 0
    /\ threshold = 0
    /\ api_products = <<>>
    /\ product_mapping = <<>>
    /\ enriched_transactions = <<>>
    /\ enriched_file = None

\* an exception that ends the run in main's handler before the call
Raise(name) ==
    /\ pc' = "failed"
    /\ error' = name
    /\ UNCHANGED <<raw_lines, transactions, filterVars, analysisVars, catalogVars>>

\* transactions, invalid_count, summary = validate_and_filter(transactions,
\* reg, lo, hi); an exception ends the run
Call_validate_and_filter(reg, lo, hi, done) ==
    LET out == validate_and_filter(transactions, reg, lo, hi) IN
    /\ inputs' = transactions
    /\ region' = reg
    /\ min_amount' = lo
    /\ max_amount' = hi
    /\ IF out.raised # ""
       THEN /\ pc' = "failed"
            /\ error' = out.raised
            /\ UNCHANGED <<raw_lines, transactions, invalid_count, filter_summary,
                           analysisVars, catalogVars>>
       ELSE /\ pc' = done
            /\ transactions' = out.valid_transactions
            /\ invalid_count' = out.invalid_count
            /\ filter_summary' = out.filter_summary
            /\ UNCHANGED <<raw_lines, error, analysisVars, catalogVars>>

\* main's step 3: the regions and amounts shown (a record without the key
\* raises KeyError), the answers read, the bounds converted by float()
\* (ValueError for a text it refuses), then the call, with the arguments
\* typed or with the defaults
AskFilterOptions ==
    /\ pc = "parsed"
    /\ IF \E i \in 1..Len(transactions) :
            {"Region", "Quantity", "UnitPrice"} \ DOMAIN transactions[i] # {}
       THEN Raise("KeyError")
       ELSE \E answer \in ChoiceAnswers :
            LET strip(text) == rstrip(lstrip(text))
                choice == [i \in 1..Len(strip(answer)) |-> lower(strip(answer)[i])]
            IN IF choice # <<"y">>
               THEN Call_validate_and_filter(None, None, None, "validated")
               ELSE \E region_answer \in RegionAnswers,
                       min_answer \in MinAnswers, max_answer \in MaxAnswers :
                    LET region_input == strip(region_answer)
                        min_input == strip(min_answer)
                        max_input == strip(max_answer)
                        region_given ==
                            IF region_input # <<>> THEN Some(region_input) ELSE None
                        min_given ==
                            IF min_input # <<>> THEN float_of_str(min_input) ELSE None
                        max_given ==
                            IF max_input # <<>> THEN float_of_str(max_input) ELSE None
                    IN IF \/ min_input # <<>> /\ min_given = None
                          \/ max_input # <<>> /\ max_given = None
                       THEN Raise("ValueError")
                       ELSE Call_validate_and_filter(region_given, min_given,
                                                     max_given, "validated")

\* a call by a caller other than main, with the arguments of the state
ValidateAndFilter ==
    /\ pc = "caller"
    /\ Call_validate_and_filter(region, min_amount, max_amount, "validated")

\* the same call applied by a caller to the list the first call returned
ValidateAgain ==
    /\ pc = "validated"
    /\ Call_validate_and_filter(region, min_amount, max_amount, "revalidated")

NextValidate == AskFilterOptions \/ ValidateAndFilter \/ ValidateAgain

SpecValidate == InitValidate /\ [][NextValidate]_vars

----------------------------------------------------------------------------
(* The analysis functions as main() calls them *)

\* records for the analysis functions: three products, two regions, two
\* dates and two customers, with quantities and prices that make equal and
\* unequal sums, three of the prices (0.2, 0.1, 0.3) not being sums of
\* powers of 2, so that a float holds them rounded; the last two are a
\* record of amount 0, which validation rejects, and one whose unit price
\* is a NaN, which validation lets through
AnalysisPool ==
    { Tx(T1, D1, P1, Mouse,    1, Price(20), C1, North),
      Tx(T1, D2, P1, Mouse,    2, Price(10), C2, South),
      Tx(T1, D2, P1, Laptop,   1, Price(30), C1, North),
      Tx(T1, D1, P1, Keyboard, 3, Price(100), C2, South),
      Tx(T1, D1, P1, Mouse,    0, Two, C1, North),
      Tx(T1, D2, P1, Laptop,   1, NotANumber, C2, South) }

\* arguments n of top_selling_products: 0, fewer than, as many as and more
\* than the products, and the default
NArgs == {0, 1, 2, 3, 5}

\* arguments threshold of low_performing_products, and the default
ThresholdArgs == {1, 2, 3, 4, 10}

InitAnalysis ==
    /\ pc = "analyze"
    /\ raw_lines = <<>>
    /\ transactions \in SeqsUpTo(AnalysisPool, MaxAnalysisLen)
    /\ inputs = <<>>
    /\ region = None
    /\ min_amount = None
    /\ max_amount = None
    /\ invalid_count = 0
    /\ filter_summary = None
    /\ error = ""
    /\ result = None
    /\ n = 0
    /\ threshold = 0
    /\ api_products = <<>>
    /\ product_mapping = <<>>
    /\ enriched_transactions = <<>>
    /\ enriched_file = None

\* a call of main's step 5: the value returned is kept in result; an
\* exception is caught by main's handler, which ends the run
Call(name, out) ==
    IF out.raised # ""
    THEN /\ pc' = "failed"
         /\ error' = out.raised
         /\ UNCHANGED result
    ELSE /\ pc' = name
         /\ result' = out.value
         /\ UNCHANGED error

CalculateTotalRevenue ==
    /\ pc = "analyze"
    /\ Call("calculate_total_revenue", calculate_total_revenue(transactions))
    /\ UNCHANGED <<raw_lines, transactions, filterVars, n, threshold, catalogVars>>

RegionWiseSales ==
    /\ pc = "analyze"
    /\ Call("region_wise_sales", region_wise_sales(transactions))
    /\ UNCHANGED <<raw_lines, transactions, filterVars, n, threshold, catalogVars>>

TopSellingProducts ==
    /\ pc = "analyze"
    /\ \E k \in NArgs :
         /\ n' = k
         /\ Call("top_selling_products", top_selling_products(transactions, k))
    /\ UNCHANGED <<raw_lines, transactions, filterVars, threshold, catalogVars>>

CustomerAnalysis ==
    /\ pc = "analyze"
    /\ Call("customer_analysis", customer_analysis(transactions))
    /\ UNCHANGED <<raw_lines, transactions, filterVars, n, threshold, catalogVars>>

DailySalesTrend ==
    /\ pc = "analyze"
    /\ Call("daily_sales_trend", daily_sales_trend(transactions))
    /\ UNCHANGED <<raw_lines, transactions, filterVars, n, threshold, catalogVars>>

FindPeakSalesDay ==
    /\ pc = "analyze"
    /\ Call("find_peak_sales_day", find_peak_sales_day(transactions))
    /\ UNCHANGED <<raw_lines, transactions, filterVars, n, threshold, catalogVars>>

LowPerformingProducts ==
    /\ pc = "analyze"
    /\ \E t \in ThresholdArgs :
         /\ threshold' = t
         /\ Call("low_performing_products", low_performing_products(transactions, t))
    /\ UNCHANGED <<raw_lines, transactions, filterVars, n, catalogVars>>

NextAnalysis ==
    \/ CalculateTotalRevenue
    \/ RegionWiseSales
    \/ TopSellingProducts
    \/ CustomerAnalysis
    \/ DailySalesTrend
    \/ FindPeakSalesDay
    \/ LowPerformingProducts

SpecAnalysis == InitAnalysis /\ [][NextAnalysis]_vars

----------------------------------------------------------------------------
(* The catalog mapper and the enrichment join as main() calls them *)

\* product ids: catalog ids 1, 0 and 2, a doubled and an inner P, no digits,
\* a letter; and a record without the key ProductID
ProductIDs ==
    { <<"P", "1">>, <<"P", "0">>, <<"P", "2">>, <<"P", "P", "1">>,
      <<"P", "1", "P", "2">>, <<"P">>, <<"P", "X">> }

EnrichPool ==
    { [Sale(1, North) EXCEPT !.ProductID = id] : id \in ProductIDs }
    \cup { Without(Sale(1, North), "ProductID") }

Product(id, category, brand, rating) ==
    [id |-> id, title |-> Some(<<"t">>), category |-> category, brand |-> brand,
     price |-> Some(1), rating |-> rating]

\* catalog products: ids 0, 1 (twice, with different values) and 12, and a
\* product whose id and values are null
CatalogPool ==
    { Product(Some(0), Some(<<"a">>), Some(<<"x">>), Some(3)),
      Product(Some(1), Some(<<"b">>), Some(<<"y">>), Some(4)),
      Product(Some(1), Some(<<"c">>), None, Some(5)),
      Product(Some(12), Some(<<"d">>), Some(<<"z">>), None),
      Product(None, None, None, None) }

InitEnrich ==
    /\ pc = "fetched"
    /\ raw_lines = <<>>
    /\ transactions \in SeqsUpTo(EnrichPool, MaxEnrichLen)
    /\ api_products \in SeqsUpTo(CatalogPool, MaxCatalogLen)
    /\ product_mapping = <<>>
    /\ enriched_transactions = <<>>
    /\ enriched_file = None
    /\ inputs = <<>>
    /\ region = None
    /\ min_amount = None
    /\ max_amount = None
    /\ invalid_count = 0
    /\ filter_summary = None
    /\ error = ""
    /\ result = None
    /\ n = 0
    /\ threshold = 0

\* product_mapping = create_product_mapping(api_products)
CreateProductMapping ==
    /\ pc = "fetched"
    /\ pc' = "mapped"
    /\ product_mapping' = create_product_mapping(api_products)
    /\ UNCHANGED <<raw_lines, transactions, error, filterVars, analysisVars, api_products,
                   enriched_transactions, enriched_file>>

\* enriched_transactions = enrich_sales_data(transactions, product_mapping),
\* with its call of save_enriched_data: nothing is written for an empty
\* list or when the file cannot be written
EnrichSalesData ==
    /\ pc = "mapped"
    /\ pc' = "enriched"
    /\ enriched_transactions' = enrich_sales_data(transactions, product_mapping)
    /\ \E written \in BOOLEAN :
         enriched_file' =
            IF written /\ enriched_transactions' # <<>>
            THEN Some(file_lines(enriched_transactions'))
            ELSE enriched_file
    /\ UNCHANGED <<raw_lines, transactions, error, filterVars, analysisVars, api_products,
                   product_mapping>>

NextEnrich == CreateProductMapping \/ EnrichSalesData

SpecEnrich == InitEnrich /\ [][NextEnrich]_vars

----------------------------------------------------------------------------
(* Claims about validate_and_filter *)

\* the amount of a record, Quantity * UnitPrice
Amount(tx) == float_mul(tx["UnitPrice"], tx["Quantity"])

\* the business rules as the specification states them

SatisfiesRules(tx) ==
    /\ {"TransactionID", "Date", "ProductID", "ProductName",
        "Quantity", "UnitPrice", "CustomerID", "Region"} \subseteq DOMAIN tx
    /\ tx["Quantity"] > 0
    /\ float_lt(float_zero, tx["UnitPrice"])
    /\ tx["TransactionID"] # <<>> /\ Head(tx["TransactionID"]) = "T"
    /\ tx["ProductID"] # <<>> /\ Head(tx["ProductID"]) = "P"
    /\ tx["CustomerID"] # <<>> /\ Head(tx["CustomerID"]) = "C"

Returned == pc \in {"validated", "revalidated"}

\* C1: every record of the valid_records that validate_and_filter returns
\* has the eight required fields, Quantity > 0, UnitPrice > 0 and the
\* prefixes T, P and C; no record breaking a rule is in the returned list.
C1_ReturnedRecordsSatisfyRules ==
    Returned => \A i \in 1..Len(transactions) : SatisfiesRules(transactions[i])

\* validate_and_filter has been called: it returned, or it raised (the
\* exceptions that end main before the call are KeyError and ValueError)
Called == Returned \/ (pc = "failed" /\ error = "TypeError")

\* the accounting equations of the summary
Accounted ==
    /\ filter_summary.total_input = Len(inputs)
    /\ filter_summary.invalid = invalid_count
    /\ filter_summary.final_count = Len(transactions)
    /\ invalid_count + Len(SelectSeq(inputs, SatisfiesRules)) = Len(inputs)
    /\ filter_summary.total_input =
         filter_summary.invalid + filter_summary.filtered_by_region
         + filter_summary.filtered_by_amount + filter_summary.final_count

\* C2: for every input and every filter argument combination the call
\* accounts for every input record exactly once: it returns, invalid_count
\* plus the number of records passing validation is total_input,
\* summary.invalid is invalid_count, summary.final_count is
\* len(valid_records) and total_input is the sum of invalid,
\* filtered_by_region, filtered_by_amount and final_count.
C2_EveryInputAccounted ==
    Called => (pc # "failed" /\ Accounted)

\* C3: for a non-empty region argument the returned valid_records are
\* exactly the input records that pass validation, whose Region equals the
\* argument and whose amount lies within the inclusive bounds given, in
\* input order and without duplicates.
C3_KeptRecord(tx) ==
    /\ SatisfiesRules(tx)
    /\ tx["Region"] = region[1]
    /\ (min_amount # None => float_le(min_amount[1], Amount(tx)))
    /\ (max_amount # None => float_le(Amount(tx), max_amount[1]))

C3_RegionAndAmountIntersect ==
    (pc = "validated" /\ region # None /\ region[1] # <<>>)
        => transactions = SelectSeq(inputs, C3_KeptRecord)

\* C4: applying validate_and_filter with the same arguments to the list it
\* returned returns the identical list, with invalid_count 0 and
\* filtered_by_region and filtered_by_amount 0.
C4_Idempotent ==
    /\ pc = "validated" =>
         validate_and_filter(transactions, region, min_amount, max_amount).raised = ""
    /\ pc = "revalidated" =>
         /\ transactions = inputs
         /\ invalid_count = 0
         /\ filter_summary.filtered_by_region = 0
         /\ filter_summary.filtered_by_amount = 0

\* a second application, with a region and an amount bound, to a list of
\* two records or more
C4_Witness ==
    /\ pc = "revalidated"
    /\ region # None /\ region[1] # <<>>
    /\ min_amount # None \/ max_amount # None
    /\ Len(transactions) >= 2

----------------------------------------------------------------------------
(* Claims about enrich_sales_data *)

ApiFields == {"API_Category", "API_Brand", "API_Rating", "API_Match"}

\* C5: enrich_sales_data returns len(T) records; the i-th carries the
\* unchanged base fields of the i-th transaction plus API_Category,
\* API_Brand, API_Rating and API_Match; with an empty mapping every
\* API_Match is false.
C5_EnrichKeepsEveryTransaction ==
    pc = "enriched" =>
      /\ Len(enriched_transactions) = Len(transactions)
      /\ \A i \in 1..Len(transactions) :
           /\ DOMAIN enriched_transactions[i] = DOMAIN transactions[i] \cup ApiFields
           /\ \A f \in DOMAIN transactions[i] :
                enriched_transactions[i][f] = transactions[i][f]
           /\ product_mapping = <<>> => enriched_transactions[i]["API_Match"] = FALSE

\* two different transactions enriched in order, the first a hit and the
\* second a miss
C5_Witness ==
    /\ pc = "enriched"
    /\ Len(transactions) = 2
    /\ transactions[1] # transactions[2]
    /\ enriched_transactions[1]["API_Match"]
    /\ ~enriched_transactions[2]["API_Match"]

\* the catalog entry held under the integer key k, if any
C6_Entries(k) ==
    { j \in 1..Len(product_mapping) : product_mapping[j].key = Some(k) }

\* C6: for every transaction API_Match is true, with category, brand and
\* rating copied from the catalog entry, exactly when the numeric key
\* derived from ProductID is a key of the mapping (for every integer key,
\* 0 included); otherwise API_Match is false and the three values are null.
C6_MatchIffKeyInCatalog ==
    pc = "enriched" =>
      \A i \in 1..Len(transactions) :
        LET id == numeric_id(transactions[i])
            e == enriched_transactions[i]
        IN IF id # None /\ C6_Entries(id[1]) # {}
           THEN /\ e["API_Match"] = TRUE
                /\ \E j \in C6_Entries(id[1]) :
                     /\ e["API_Category"] = product_mapping[j].category
                     /\ e["API_Brand"] = product_mapping[j].brand
                     /\ e["API_Rating"] = product_mapping[j].rating
           ELSE /\ e["API_Match"] = FALSE
                /\ e["API_Category"] = None
                /\ e["API_Brand"] = None
                /\ e["API_Rating"] = None

----------------------------------------------------------------------------
(* Claims about the aggregation functions *)

RECURSIVE Sum(_)
Sum(ints) == IF ints = <<>> THEN 0 ELSE Head(ints) + Sum(Tail(ints))

\* the sum of floats, added from 0.0 in the order of the sequence
RECURSIVE FloatSum(_)
FloatSum(floats) ==
    IF floats = <<>> THEN float_zero
    ELSE float_add(FloatSum(SubSeq(floats, 1, Len(floats) - 1)), floats[Len(floats)])

AllValid == \A i \in 1..Len(transactions) : SatisfiesRules(transactions[i])

\* the records of transactions with the product name name
OfProduct(name) == SelectSeq(transactions, LAMBDA tx : tx["ProductName"] = name)

ProductNames == { transactions[i]["ProductName"] : i \in 1..Len(transactions) }

QuantityOf(name) ==
    Sum([i \in 1..Len(OfProduct(name)) |-> OfProduct(name)[i]["Quantity"]])

RevenueOf(name) ==
    FloatSum([i \in 1..Len(OfProduct(name)) |-> Amount(OfProduct(name)[i])])

\* C7: on a collection of validated records none of the seven functions
\* raises; on the empty collection calculate_total_revenue returns 0.0,
\* region_wise_sales, customer_analysis and daily_sales_trend return empty
\* mappings, top_selling_products and low_performing_products return empty
\* lists and find_peak_sales_day returns (None, 0.0, 0).
C7_TotalOnValidatedRecords ==
    /\ AllValid => pc # "failed"
    /\ transactions = <<>> =>
         /\ pc = "calculate_total_revenue" => result = float_zero
         /\ pc \in {"region_wise_sales", "customer_analysis", "daily_sales_trend",
                    "top_selling_products", "low_performing_products"}
              => result = <<>>
         /\ pc = "find_peak_sales_day" => result = <<None, float_zero, 0>>

\* find_peak_sales_day has returned on the empty collection
C7_Witness ==
    /\ transactions = <<>>
    /\ pc = "find_peak_sales_day"
    /\ result = <<None, float_zero, 0>>

\* the records of transactions in the region reg
OfRegion(reg) == SelectSeq(transactions, LAMBDA tx : tx["Region"] = reg)

RegionRevenue(reg) ==
    FloatSum([i \in 1..Len(OfRegion(reg)) |-> Amount(OfRegion(reg)[i])])

\* every amount of transactions is a whole number
WholeAmounts ==
    \A i \in 1..Len(transactions) :
        /\ Amount(transactions[i]).kind = "finite"
        /\ Amount(transactions[i]).exponent >= 0

\* each region once, the regions of T, and counts that sum to len(T)
RegionsOnceAndCounted ==
    /\ \A i, j \in 1..Len(result) : result[i].key = result[j].key => i = j
    /\ { result[i].key : i \in 1..Len(result) }
         = { transactions[i]["Region"] : i \in 1..Len(transactions) }
    /\ Sum([i \in 1..Len(result) |-> result[i].transaction_count])
         = Len(transactions)

C9_TopSelling ==
    (pc = "top_selling_products" /\ n >= 0) =>
      /\ Len(result) = IF n < Cardinality(ProductNames) THEN n
                       ELSE Cardinality(ProductNames)
      /\ \A i \in 1..Len(result) :
           /\ result[i][1] \in ProductNames
           /\ result[i][2] = QuantityOf(result[i][1])
           /\ result[i][3] = RevenueOf(result[i][1])
      /\ \A i, j \in 1..Len(result) : result[i][1] = result[j][1] => i = j
      /\ \A i, j \in 1..Len(result) : i < j => result[i][2] >= result[j][2]
      /\ \A name \in ProductNames \ { result[i][1] : i \in 1..Len(result) } :
           \A i \in 1..Len(result) : QuantityOf(name) <= result[i][2]

\* the top 2 of three products, the first summed over two records and not
\* the product with the greatest revenue
C9_Witness ==
    /\ pc = "top_selling_products"
    /\ n = 2
    /\ Cardinality(ProductNames) = 3
    /\ Len(result) = 2
    /\ Len(OfProduct(result[1][1])) = 2
    /\ \E name \in ProductNames : float_lt(result[1][3], RevenueOf(name))

\* C10: low_performing_products(T, threshold) returns exactly the product
\* names whose quantity summed over T is < threshold, each once with its
\* summed quantity and revenue, in ascending total_quantity.
C10_LowPerforming ==
    pc = "low_performing_products" =>
      /\ { result[i][1] : i \in 1..Len(result) }
           = { name \in ProductNames : QuantityOf(name) < threshold }
      /\ \A i, j \in 1..Len(result) : result[i][1] = result[j][1] => i = j
      /\ \A i \in 1..Len(result) :
           /\ result[i][2] = QuantityOf(result[i][1])
           /\ result[i][3] = RevenueOf(result[i][1])
      /\ \A i, j \in 1..Len(result) : i < j => result[i][2] <= result[j][2]

\* a product returned beside one left out whose two records are each below
\* the threshold and sum to it
C10_Witness ==
    /\ pc = "low_performing_products"
    /\ Len(result) = 1
    /\ \E name \in ProductNames :
         /\ QuantityOf(name) = threshold
         /\ Len(OfProduct(name)) = 2
         /\ \A i \in 1..2 : OfProduct(name)[i]["Quantity"] < threshold

\* the records of transactions dated date
OfDate(date) == SelectSeq(transactions, LAMBDA tx : tx["Date"] = date)

Dates == { transactions[i]["Date"] : i \in 1..Len(transactions) }

DateRevenue(date) ==
    FloatSum([i \in 1..Len(OfDate(date)) |-> Amount(OfDate(date)[i])])

\* index in transactions of the first record dated date
FirstSeen(date) ==
    CHOOSE i \in 1..Len(transactions) :
        /\ transactions[i]["Date"] = date
        /\ \A j \in 1..(i - 1) : transactions[j]["Date"] # date

\* C11: on a non-empty validated collection find_peak_sales_day returns a
\* date of T whose summed revenue is >= that of every other date, with
\* that date's revenue and transaction count; among dates that share the
\* maximum it returns the one whose first record is earliest in T.
C11_PeakDay ==
    (pc = "find_peak_sales_day" /\ AllValid /\ transactions # <<>>) =>
      /\ result[1] # None
      /\ result[1][1] \in Dates
      /\ result[2] = DateRevenue(result[1][1])
      /\ result[3] = Len(OfDate(result[1][1]))
      /\ \A d \in Dates : float_le(DateRevenue(d), result[2])
      /\ \A d \in Dates :
           DateRevenue(d) = result[2] => FirstSeen(result[1][1]) <= FirstSeen(d)

\* two dates share the maximum revenue, each summed over two records, and
\* the date returned is the later one in str order, seen first
C11_Witness ==
    /\ pc = "find_peak_sales_day"
    /\ AllValid
    /\ Len(transactions) = 4
    /\ Dates = {D1, D2}
    /\ DateRevenue(D1) = DateRevenue(D2)
    /\ Len(OfDate(D1)) = 2
    /\ transactions[1]["Date"] = D2
    /\ result[1] = Some(D2)

Regions_of(txs) == { txs[i]["Region"] : i \in 1..Len(txs) }

\* C16: when the grand total of Quantity*UnitPrice over the records passed
\* to region_wise_sales is zero and at least one region is present, the
\* call does not fail and returns every region with percentage 0.
C16_ZeroTotalGivesZeroPercentages ==
    [][(/\ RegionWiseSales
        /\ transactions # <<>>
        /\ is_zero(FloatSum([i \in 1..Len(transactions) |-> Amount(transactions[i])])))
       => /\ pc' = "region_wise_sales"
          /\ { result'[i].key : i \in 1..Len(result') } = Regions_of(transactions)
          /\ \A i \in 1..Len(result') : is_zero(result'[i].percentage)]_vars

\* all eight fields are present
WellFormed(tx) ==
    {"TransactionID", "Date", "ProductID", "ProductName",
     "Quantity", "UnitPrice", "CustomerID", "Region"} \subseteq DOMAIN tx

\* positions of the input holding a well-formed record with an empty Region
\* or an empty CustomerID
EmptyRegionOrCustomer ==
    { i \in 1..Len(inputs) :
        /\ WellFormed(inputs[i])
        /\ (inputs[i]["Region"] = <<>> \/ inputs[i]["CustomerID"] = <<>>) }

\* C13: validate_and_filter excludes from the records it returns, and counts
\* in invalid_count, every well-formed record whose Region is the empty
\* string or whose CustomerID is the empty string.
C13_EmptyRegionOrCustomerRejected ==
    Returned =>
      /\ \A i \in EmptyRegionOrCustomer :
           \A j \in 1..Len(transactions) : transactions[j] # inputs[i]
      /\ invalid_count >= Cardinality(EmptyRegionOrCustomer)

\* C17: whenever the region argument is a string (None is the one value
\* that means no filter; the empty string is a string), only records whose
\* Region equals the argument are returned, and every other validated
\* record is counted in filtered_by_region.
C17_RegionArgumentAlwaysFilters ==
    (Returned /\ region # None) =>
      /\ \A j \in 1..Len(transactions) : transactions[j]["Region"] = region[1]
      /\ filter_summary.filtered_by_region
           = Cardinality({ i \in 1..Len(inputs) :
                             /\ SatisfiesRules(inputs[i])
                             /\ inputs[i]["Region"] # region[1] })

\* ProductID without its leading "P", if it has one
AfterLeadingP(product_id) ==
    IF product_id # <<>> /\ Head(product_id) = "P" THEN Tail(product_id)
    ELSE product_id

\* C15: the catalog key is the integer parsed from ProductID with only its
\* leading "P" removed; when that remainder is not an integer (it holds a
\* further "P", as in "PP1" or "P1P2") the key is absent and the record has
\* API_Match false, whatever the catalog holds.
C15_OnlyLeadingPRemoved ==
    pc = "enriched" =>
      \A i \in 1..Len(transactions) :
        ("ProductID" \in DOMAIN transactions[i]
           /\ int_of_str(AfterLeadingP(transactions[i]["ProductID"])) = None)
        => enriched_transactions[i]["API_Match"] = FALSE

----------------------------------------------------------------------------
(* Claims about parse_transactions *)

\* the positions of the delimiter in line
Bars(line) == { i \in 1..Len(line) : line[i] = "|" }

\* the position of the k-th delimiter of line; 0 before the first field
\* and Len(line) + 1 after the last
Bar(line, k) ==
    IF k = 0 THEN 0
    ELSE IF k > Cardinality(Bars(line)) THEN Len(line) + 1
    ELSE CHOOSE i \in Bars(line) : Cardinality({ j \in Bars(line) : j < i }) = k - 1

\* the k-th field of line
Field(line, k) == SubSeq(line, Bar(line, k - 1) + 1, Bar(line, k) - 1)

WithoutCommas(s) == SelectSeq(s, LAMBDA c : c # ",")

\* line has exactly 8 fields, its quantity without commas parses as an
\* integer and its unit price without commas as a number
Parses(line) ==
    /\ Cardinality(Bars(line)) = 7
    /\ int_of_str(WithoutCommas(Field(line, 5))) # None
    /\ float_of_str(WithoutCommas(Field(line, 6))) # None

\* the position in raw_lines of the k-th line that parses
ParsedLine(k) ==
    CHOOSE i \in 1..Len(raw_lines) :
        /\ Parses(raw_lines[i])
        /\ Cardinality({ j \in 1..(i - 1) : Parses(raw_lines[j]) }) = k - 1

\* C12: parse_transactions returns one record per line that splits on "|"
\* into exactly 8 fields with a comma-stripped quantity that parses as an
\* integer and a comma-stripped unit price that parses as a number, and no
\* record for another line; the records are in the order of their lines,
\* and a dropped line does not end the parsing of the lines after it.
C12_OneRecordPerParsedLine ==
    pc = "parsed" =>
      /\ Len(transactions)
           = Cardinality({ i \in 1..Len(raw_lines) : Parses(raw_lines[i]) })
      /\ \A k \in 1..Len(transactions) :
           LET line == raw_lines[ParsedLine(k)] IN
           /\ transactions[k]["TransactionID"] = Field(line, 1)
           /\ transactions[k]["Date"] = Field(line, 2)
           /\ transactions[k]["ProductID"] = Field(line, 3)
           /\ transactions[k]["ProductName"] = WithoutCommas(Field(line, 4))
           /\ Some(transactions[k]["Quantity"])
                = int_of_str(WithoutCommas(Field(line, 5)))
           /\ Some(transactions[k]["UnitPrice"])
                = float_of_str(WithoutCommas(Field(line, 6)))
           /\ transactions[k]["CustomerID"] = Field(line, 7)
           /\ transactions[k]["Region"] = Field(line, 8)

\* three lines: the first and the third parse and differ, the second is
\* dropped, and the two records are returned in the order of their lines
C12_Witness ==
    /\ pc = "parsed"
    /\ Len(raw_lines) = 3
    /\ Parses(raw_lines[1])
    /\ ~Parses(raw_lines[2])
    /\ Parses(raw_lines[3])
    /\ Field(raw_lines[1], 2) # Field(raw_lines[3], 2)
    /\ Len(transactions) = 2
    /\ transactions[1]["Date"] = Field(raw_lines[1], 2)
    /\ transactions[2]["Date"] = Field(raw_lines[3], 2)

\* line begins with the first column name of the header
BeginsWithHeaderToken(line) ==
    /\ Len(line) >= Len(columns[1])
    /\ SubSeq(line, 1, Len(columns[1])) = columns[1]

\* line is empty or holds blanks only
Blank(line) == \A i \in 1..Len(line) : line[i] = " "

\* C14: parse_transactions emits no record for a line that begins with the
\* token "TransactionID", whatever its other fields hold, and no record
\* for a blank line: every record it returns comes from another line.
C14_HeaderAndBlankLinesSkipped ==
    pc = "parsed" =>
      /\ \A k \in 1..Len(transactions) :
           ~BeginsWithHeaderToken(transactions[k]["TransactionID"])
      /\ Len(transactions)
           <= Cardinality({ i \in 1..Len(raw_lines) :
                              /\ ~BeginsWithHeaderToken(raw_lines[i])
                              /\ ~Blank(raw_lines[i]) })

====
